---- MODULE Spec2Model ----
(***************************************************************************)
(* Model of the urbit-io driver subprocess: the frame reader               *)
(* (recv_io_requests), the frame writer (send_io_responses), the process   *)
(* entry point (run) of src/src/lib.rs, and the HTTP client driver         *)
(* (HttpClient::run, send_request, cancel_request, the request tasks and   *)
(* the Request/Response translators) of src/src/http/client.rs.            *)
(*                                                                         *)
(* Bytes are 0..255, byte strings are sequences of bytes.  An atom is kept *)
(* as its little-endian byte string without trailing zero bytes, so the    *)
(* atom 0 is the empty byte string.                                        *)
(***************************************************************************)
EXTENDS Integers, Sequences, FiniteSets, TLC

(***************************************************************************)
(* Bounds of the model.                                                    *)
(***************************************************************************)
\* Largest number of frames the host writes to the input stream.
MaxFrames == 3
\* Largest number of request commands among them.
MaxRequests == 2
\* Capacity of the two bounded channels (lib.rs sets 32; the model scales it
\* down so that a full channel is reached with MaxRequests requests).
QUEUE_SIZE == 1

\* lib.rs: const HTTP_CLIENT: RequestTag = 0.
HTTP_CLIENT == 0

(***************************************************************************)
(* Nouns (the noun crate's Atom and Cell, as far as the driver uses them). *)
(***************************************************************************)
Atom(bytes) == [kind |-> "atom", bytes |-> bytes]

Cell(h, t) == [kind |-> "cell", head |-> h, tail |-> t]

IsAtom(n) == n.kind = "atom"

IsCell(n) == n.kind = "cell"

\* Atom::null()
Null == Atom(<<>>)

RECURSIVE NatBytes(_)
\* Atom::from(u64 / u16 / usize): the minimal little-endian byte string.
NatBytes(n) == IF n = 0 THEN <<>> ELSE <<n % 256>> \o NatBytes(n \div 256)

RECURSIVE BytesNat(_)
BytesNat(b) == IF b = <<>> THEN 0 ELSE b[1] + 256 * BytesNat(Tail(b))

\* Atom::as_u64: None when the atom is wider than 64 bits.
FitsU64(a) == Len(a.bytes) <= 8

AsU64(a) == BytesNat(a.bytes)

RECURSIVE Utf8From(_, _)
\* str::from_utf8 on the bytes from index i on (lead byte and continuation
\* bytes; overlong forms are not treated apart).
Utf8From(b, i) ==
    LET cont(j) == j <= Len(b) /\ b[j] >= 128 /\ b[j] <= 191
    IN  IF i > Len(b) THEN TRUE
        ELSE IF b[i] < 128 THEN Utf8From(b, i + 1)
        ELSE IF b[i] >= 194 /\ b[i] <= 223
             THEN cont(i + 1) /\ Utf8From(b, i + 2)
        ELSE IF b[i] >= 224 /\ b[i] <= 239
             THEN cont(i + 1) /\ cont(i + 2) /\ Utf8From(b, i + 3)
        ELSE IF b[i] >= 240 /\ b[i] <= 244
             THEN cont(i + 1) /\ cont(i + 2) /\ cont(i + 3) /\ Utf8From(b, i + 4)
        ELSE FALSE

\* Atom::as_str succeeds.
IsStr(a) == Utf8From(a.bytes, 1)

RECURSIVE AsList(_, _)
\* Cell::as_list::<N>: the N elements of a right-nested tuple whose last
\* element is the final tail; << >> stands for None.
AsList(n, count) ==
    IF count = 1 THEN <<n>>
    ELSE IF ~IsCell(n) THEN <<>>
    ELSE LET rest == AsList(n.tail, count - 1)
         IN  IF rest = <<>> THEN <<>> ELSE <<n.head>> \o rest

(***************************************************************************)
(* Text constants.                                                         *)
(***************************************************************************)
\* "request"
StrRequest == <<114, 101, 113, 117, 101, 115, 116>>

\* "cancel-request"
StrCancelRequest == <<99, 97, 110, 99, 101, 108, 45, 114, 101, 113, 117, 101, 115, 116>>

(***************************************************************************)
(* Request::try_from_noun (client.rs 30-102) and the checks of the http    *)
(* crate's request builder it runs into.                                   *)
(***************************************************************************)
\* Characters of an HTTP token (method and header names).
TokenChar(c) ==
    /\ c >= 33
    /\ c <= 126
    /\ c \notin {34, 40, 41, 44, 47, 58, 59, 60, 61, 62, 63, 64, 91, 92, 93, 123, 125}

\* Builder::method accepts the text.
MethodOk(b) == Len(b) > 0 /\ \A i \in 1..Len(b) : TokenChar(b[i])

\* Builder::header accepts the name and the value.
HeaderOk(k, v) ==
    /\ Len(k) > 0
    /\ \A i \in 1..Len(k) : TokenChar(k[i])
    /\ \A i \in 1..Len(v) : (v[i] >= 32 /\ v[i] < 127) \/ v[i] = 9

\* Builder::uri and Uri::host: "invalid" when the text is no URI, "none" for
\* a URI without authority (path only), "host" when it names a host.
UriHost(b) ==
    LET n == Len(b)
        seps == {i \in 1..n : i + 2 <= n /\ b[i] = 58 /\ b[i + 1] = 47 /\ b[i + 2] = 47}
        slashes == {i \in 1..n : b[i] = 47}
    IN  IF n = 0 THEN "invalid"
        ELSE IF b[1] = 47 THEN "none"
        ELSE IF seps # {}
             THEN LET s == CHOOSE i \in seps : \A j \in seps : i <= j
                  IN  IF s > 1 /\ s + 3 <= n /\ b[s + 3] # 47 THEN "host" ELSE "invalid"
        ELSE IF slashes = {} THEN "host"
        ELSE "invalid"

RECURSIVE HeadersError(_)
\* The header walk of try_from_noun (48-62): "" when every element up to the
\* first atom is a pair of text atoms, else the convert::Error it returns;
\* "builder" when the builder rejected a header (surfaces at uri_ref).
HeadersError(headers) ==
    IF ~IsCell(headers) THEN ""
    ELSE LET header == headers.head
         IN  IF ~IsCell(header) THEN "UnexpectedAtom"
             ELSE IF ~(IsAtom(header.head) /\ IsAtom(header.tail)) THEN "UnexpectedCell"
             ELSE IF ~(IsStr(header.head) /\ IsStr(header.tail)) THEN "AtomToStr"
             ELSE LET rest == HeadersError(headers.tail)
                  IN  IF rest # "" /\ rest # "builder" THEN rest
                      ELSE IF ~HeaderOk(header.head.bytes, header.tail.bytes) THEN "builder"
                      ELSE rest

\* The body match of try_from_noun (64-78).
BodyError(body) ==
    IF IsAtom(body) THEN ""
    ELSE LET l == AsList(body, 3)
         IN  IF l = <<>> THEN "MissingValue"
             ELSE IF ~(IsAtom(l[2]) /\ IsAtom(l[3])) THEN "UnexpectedCell"
             ELSE IF ~FitsU64(l[2]) THEN "AtomToUint"
             ELSE IF ~IsStr(l[3]) THEN "AtomToStr"
             ELSE ""

\* Mutant of TryFromNoun: the method, the URI's host and the headers are not
\* checked.
TryFromNounUnchecked(req) ==
    LET Err(e) == [ok |-> FALSE, err |-> e]
        l == AsList(req, 5)
    IN  IF ~IsCell(req) THEN Err("UnexpectedCell")
        ELSE IF l = <<>> THEN Err("MissingValue")
        ELSE IF ~(IsAtom(l[1]) /\ IsAtom(l[2]) /\ IsAtom(l[3])) THEN Err("UnexpectedCell")
        ELSE IF ~FitsU64(l[1]) THEN Err("AtomToUint")
        ELSE IF ~(IsStr(l[2]) /\ IsStr(l[3])) THEN Err("AtomToStr")
        ELSE IF HeadersError(l[4]) \notin {"", "builder"} THEN Err(HeadersError(l[4]))
        ELSE IF BodyError(l[5]) # "" THEN Err(BodyError(l[5]))
        ELSE [ok |-> TRUE, req_num |-> AsU64(l[1])]

\* Request::try_from_noun: [ok |-> TRUE, req_num |-> n] or
\* [ok |-> FALSE, err |-> e].
TryFromNoun(req) ==
    LET Err(e) == [ok |-> FALSE, err |-> e]
        l == AsList(req, 5)
    IN  IF ~IsCell(req) THEN Err("UnexpectedCell")
        ELSE IF l = <<>> THEN Err("MissingValue")
        ELSE IF ~(IsAtom(l[1]) /\ IsAtom(l[2]) /\ IsAtom(l[3])) THEN Err("UnexpectedCell")
        ELSE IF ~FitsU64(l[1]) THEN Err("AtomToUint")
        ELSE IF ~(IsStr(l[2]) /\ IsStr(l[3])) THEN Err("AtomToStr")
        ELSE IF HeadersError(l[4]) \notin {"", "builder"} THEN Err(HeadersError(l[4]))
        ELSE IF BodyError(l[5]) # "" THEN Err(BodyError(l[5]))
        ELSE IF \/ ~MethodOk(l[2].bytes)
                \/ UriHost(l[3].bytes) # "host"
                \/ HeadersError(l[4]) = "builder"
             THEN Err("MissingValue")
        ELSE [ok |-> TRUE, req_num |-> AsU64(l[1])]

(***************************************************************************)
(* Response::try_into_noun (client.rs 111-151).  A response is             *)
(* [req_num, parts |-> [status, headers], body]; headers is the header map *)
(* as keys() walks it: a sequence of [name, vals] in storage order, vals   *)
(* in the order get_all yields them.                                       *)
(***************************************************************************)
\* HeaderValue::to_str succeeds: visible ASCII or tab only.
ValToStrOk(v) == \A i \in 1..Len(v) : (v[i] >= 32 /\ v[i] < 127) \/ v[i] = 9

\* The (name, value) pairs in the order the two nested loops visit them.
RECURSIVE HeaderPairs(_)
HeaderPairs(headers) ==
    IF headers = <<>> THEN <<>>
    ELSE LET h == Head(headers)
         IN  [i \in 1..Len(h.vals) |-> <<h.name, h.vals[i]>>] \o HeaderPairs(Tail(headers))

RECURSIVE AppendAll(_, _)
\* Mutant of PrependAll: the list is built in iteration order, each pair
\* behind the ones before it.
AppendAll(pairs, headers_cell) ==
    IF pairs = <<>> THEN headers_cell
    ELSE Cell(Cell(Atom(Head(pairs)[1]), Atom(Head(pairs)[2])),
              AppendAll(Tail(pairs), headers_cell))

RECURSIVE PrependAll(_, _)
\* headers_cell after the loops: each pair is consed onto the list built so
\* far, starting from null.
PrependAll(pairs, headers_cell) ==
    IF pairs = <<>> THEN headers_cell
    ELSE PrependAll(Tail(pairs),
                    Cell(Cell(Atom(Head(pairs)[1]), Atom(Head(pairs)[2])), headers_cell))

\* Mutant of TryIntoNoun: the tuple starts with the status, the request
\* number comes second.
TryIntoNounStatusFirst(resp) ==
    LET pairs == HeaderPairs(resp.parts.headers)
        body == IF resp.body = <<>> THEN Null
                ELSE Cell(Null, Cell(Atom(NatBytes(Len(resp.body))), Atom(resp.body)))
    IN  IF \E i \in 1..Len(pairs) : ~ValToStrOk(pairs[i][2])
        THEN [ok |-> FALSE]
        ELSE [ok |-> TRUE,
              noun |-> Cell(Atom(NatBytes(resp.parts.status)),
                            Cell(Atom(NatBytes(resp.req_num)),
                                 Cell(PrependAll(pairs, Null), body)))]

\* [ok |-> TRUE, noun |-> n], or [ok |-> FALSE] when a header value is not
\* text and the todo!() at line 128 panics.
TryIntoNoun(resp) ==
    LET pairs == HeaderPairs(resp.parts.headers)
        req_num == Atom(NatBytes(resp.req_num))
        status == Atom(NatBytes(resp.parts.status))
        headers == PrependAll(pairs, Null)
        body == IF resp.body = <<>> THEN Null
                ELSE Cell(Null, Cell(Atom(NatBytes(Len(resp.body))), Atom(resp.body)))
    IN  IF \E i \in 1..Len(pairs) : ~ValToStrOk(pairs[i][2])
        THEN [ok |-> FALSE]
        ELSE [ok |-> TRUE, noun |-> Cell(req_num, Cell(status, Cell(headers, body)))]

(***************************************************************************)
(* Serialization of nouns to payload bytes and back.  The code that does   *)
(* it sits between lib.rs (channels of Vec<u8>) and HttpClient::run        *)
(* (channels of Noun) and is not among the sources; the model uses a       *)
(* prefix code: an atom is 0, its length, its bytes; a cell is 1, its      *)
(* head, its tail.                                                         *)
(***************************************************************************)
RECURSIVE Jam(_)
Jam(n) ==
    IF IsAtom(n) THEN <<0, Len(n.bytes)>> \o n.bytes
    ELSE <<1>> \o Jam(n.head) \o Jam(n.tail)

RECURSIVE CueAt(_, _)
\* The noun that starts at index i: [ok, noun, next].
CueAt(b, i) ==
    IF i > Len(b) THEN [ok |-> FALSE]
    ELSE IF b[i] = 0
         THEN IF i + 1 > Len(b) \/ i + 1 + b[i + 1] > Len(b) THEN [ok |-> FALSE]
              ELSE [ok |-> TRUE,
                    noun |-> Atom(SubSeq(b, i + 2, i + 1 + b[i + 1])),
                    next |-> i + 2 + b[i + 1]]
    ELSE IF b[i] = 1
         THEN LET h == CueAt(b, i + 1)
              IN  IF ~h.ok THEN [ok |-> FALSE]
                  ELSE LET t == CueAt(b, h.next)
                       IN  IF ~t.ok THEN [ok |-> FALSE]
                           ELSE [ok |-> TRUE, noun |-> Cell(h.noun, t.noun), next |-> t.next]
    ELSE [ok |-> FALSE]

\* The payload as a noun: [ok |-> TRUE, noun |-> n] or [ok |-> FALSE].
Cue(b) ==
    LET r == CueAt(b, 1)
    IN  IF r.ok /\ r.next = Len(b) + 1 THEN [ok |-> TRUE, noun |-> r.noun]
        ELSE [ok |-> FALSE]

(***************************************************************************)
(* Framing (lib.rs).                                                       *)
(***************************************************************************)
\* write_u64_le: the 8 bytes of n, least significant first.
U64LE(n) == NatBytes(n) \o [i \in 1..(8 - Len(NatBytes(n))) |-> 0]

\* Mutant of OutFrame: the frame is written like an inbound one, with a tag
\* byte that the length counts.
OutFrameTagged(resp) == U64LE(Len(resp) + 1) \o <<HTTP_CLIENT>> \o resp

\* The bytes send_io_responses writes for one response (51-58).
OutFrame(resp) == U64LE(Len(resp)) \o resp

\* Mutant of ReadFrame: a length of 0 is taken for a frame; req_len - 1
\* underflows and the task panics.
ReadFrameZeroPanics(b, p) ==
    LET have == Len(b) - p + 1
        req_len == BytesNat(SubSeq(b, p, p + 7))
    IN  IF have < 8 THEN [res |-> "break"]
        ELSE IF req_len = 0 THEN [res |-> "panic"]
        ELSE IF have < 9 THEN [res |-> "panic"]
        ELSE IF have < 8 + req_len THEN [res |-> "panic"]
        ELSE IF b[p + 8] # HTTP_CLIENT THEN [res |-> "panic"]
        ELSE [res |-> "send",
              req |-> SubSeq(b, p + 9, p + 7 + req_len),
              next |-> p + 8 + req_len]

\* Mutant of ReadFrame: the length is taken not to count the tag byte, and
\* req_len bytes are read as the payload.
ReadFrameLengthExcludesTag(b, p) ==
    LET have == Len(b) - p + 1
        req_len == BytesNat(SubSeq(b, p, p + 7))
    IN  IF have < 8 THEN [res |-> "break"]
        ELSE IF req_len = 0 THEN [res |-> "break"]
        ELSE IF have < 9 THEN [res |-> "panic"]
        ELSE IF have < 9 + req_len THEN [res |-> "panic"]
        ELSE IF b[p + 8] # HTTP_CLIENT THEN [res |-> "panic"]
        ELSE [res |-> "send",
              req |-> SubSeq(b, p + 9, p + 8 + req_len),
              next |-> p + 9 + req_len]

\* One pass of the loop of recv_io_requests over the stream b from index p
\* (20-44): "break" (length 0, or the stream ends inside or before the
\* length), "panic" (todo!() on a missing tag byte, a short payload or a tag
\* that is not HTTP_CLIENT), or "send" with the payload and the next index.
ReadFrame(b, p) ==
    LET have == Len(b) - p + 1
        req_len == BytesNat(SubSeq(b, p, p + 7))
    IN  IF have < 8 THEN [res |-> "break"]
        ELSE IF req_len = 0 THEN [res |-> "break"]
        ELSE IF have < 9 THEN [res |-> "panic"]
        ELSE IF have < 8 + req_len THEN [res |-> "panic"]
        ELSE IF b[p + 8] # HTTP_CLIENT THEN [res |-> "panic"]
        ELSE [res |-> "send",
              req |-> SubSeq(b, p + 9, p + 7 + req_len),
              next |-> p + 8 + req_len]

(***************************************************************************)
(* The inputs of the model: command nouns, the frames that carry them and  *)
(* the ways the input stream ends.                                         *)
(***************************************************************************)
\* [%request req_num method uri headers body]
RequestNoun(req_num, method, uri, headers, body) ==
    Cell(Atom(StrRequest), Cell(req_num, Cell(method, Cell(uri, Cell(headers, body)))))

\* [%cancel-request req_num]
CancelNoun(req_num) == Cell(Atom(StrCancelRequest), req_num)

\* "GET"
StrGet == <<71, 69, 84>>

\* "h://a"
StrUri == <<104, 58, 47, 47, 97>>

\* "ok"
StrOk == <<111, 107>>

\* A request without headers and body, and one with a header and a body.
GoodRequest(n) ==
    IF n = 1 THEN RequestNoun(Atom(NatBytes(n)), Atom(StrGet), Atom(StrUri), Null, Null)
    ELSE RequestNoun(Atom(NatBytes(n)), Atom(StrGet), Atom(StrUri),
                     Cell(Cell(Atom(<<120>>), Atom(<<121>>)), Null),
                     Cell(Null, Cell(Atom(NatBytes(2)), Atom(StrOk))))

\* An atom wider than 64 bits.
WideAtom == Atom(<<1, 1, 1, 1, 1, 1, 1, 1, 1>>)

\* Requests that fail decoding: no body field, a method that is not UTF-8,
\* a req_num over 64 bits, a URI without host.
BadRequests ==
    { Cell(Atom(StrRequest), Cell(Atom(<<1>>), Cell(Atom(StrGet), Cell(Atom(StrUri), Null)))),
      RequestNoun(Atom(<<1>>), Atom(<<255>>), Atom(StrUri), Null, Null),
      RequestNoun(WideAtom, Atom(StrGet), Atom(StrUri), Null, Null),
      RequestNoun(Atom(<<1>>), Atom(StrGet), Atom(<<47, 97>>), Null, Null) }

\* Cancels whose argument is a pair or does not fit u64.
BadCancels == { CancelNoun(Cell(Atom(<<1>>), Atom(<<1>>))), CancelNoun(WideAtom) }

\* An unknown tag, a pair as tag, a bare atom.
OtherCommands ==
    { Cell(Atom(<<102>>), Atom(<<1>>)),
      Cell(Cell(Atom(<<1>>), Atom(<<1>>)), Atom(<<1>>)),
      Atom(<<1>>) }

\* Request numbers the host uses.
ReqNums == {1, 2}

\* The command carries the tag %request.
IsRequest(cmd) == IsCell(cmd) /\ IsAtom(cmd.head) /\ cmd.head.bytes = StrRequest

\* The commands of the main specification: two requests, a cancel-request,
\* a request whose URI has no host.
Commands ==
    {GoodRequest(n) : n \in ReqNums} \cup {CancelNoun(Atom(NatBytes(1)))}
        \cup {RequestNoun(Atom(<<1>>), Atom(StrGet), Atom(<<47, 97>>), Null, Null)}

\* The commands of the specification of malformed input.
MalformedCommands ==
    BadRequests \cup BadCancels \cup OtherCommands
        \cup {GoodRequest(1), CancelNoun(Atom(NatBytes(1)))}

\* An inbound frame: length (tag byte plus payload), tag, payload.
InFrame(tag, payload) == U64LE(Len(payload) + 1) \o <<tag>> \o payload

RECURSIVE Concat(_)
Concat(ss) == IF ss = <<>> THEN <<>> ELSE Head(ss) \o Concat(Tail(ss))

\* Sequences over S of length at most n.
SeqsUpTo(S, n) == UNION {[1..k -> S] : k \in 0..n}

\* Ends of the input stream: a clean end at a frame boundary, and a command
\* with an unknown tag followed by a frame whose payload is cut short.
Tails ==
    { <<>>,
      InFrame(HTTP_CLIENT, Jam(Cell(Atom(<<102>>), Atom(<<1>>)))) \o U64LE(4) \o <<HTTP_CLIENT, 1>> }

\* The responses the transport may produce: status and header map, then the
\* body.  The second header map holds a value that is not text.
\* The commands of the specification of framing.
FramingCommands ==
    { GoodRequest(1), CancelNoun(Atom(NatBytes(1))),
      RequestNoun(Atom(<<1>>), Atom(StrGet), Atom(<<47, 97>>), Null, Null) }

\* Ends of the input stream in the specification of framing: a length of 0
\* followed by a frame; an end inside the length prefix; an end before the
\* tag byte; an end inside the payload; a frame with a tag other than 0; a
\* frame of length 1 (an empty payload) and then a clean end.
FramingTails ==
    { U64LE(0) \o InFrame(HTTP_CLIENT, Jam(GoodRequest(1))),
      <<4, 0, 0>>,
      U64LE(4),
      U64LE(4) \o <<HTTP_CLIENT, 1>>,
      InFrame(1, <<1>>),
      InFrame(HTTP_CLIENT, <<>>) }

PartsSet ==
    { [status |-> 200,
       headers |-> << [name |-> <<118>>, vals |-> << <<79>>, <<65>> >>],
                      [name |-> <<120>>, vals |-> << <<72>> >>] >>],
      [status |-> 200, headers |-> << [name |-> <<120>>, vals |-> << <<200>> >>] >>] }

BodySet == { StrOk }

(***************************************************************************)
(* State.                                                                  *)
(***************************************************************************)
VARIABLES
    input,          \* the bytes of the input stream (stdin), fixed at start
    pos,            \* index of the next byte recv_io_requests reads
    reader,         \* recv_io_requests: "read", "send", "done", "panicked"
    req,            \* the payload recv_io_requests is about to send
    http_client_ch, \* channel scheduling task -> http client driver task
    resp_ch,        \* channel driver tasks -> output task
    driver,         \* HttpClient::run: "running", "draining", "stopped"
    status,         \* what the driver task returned: "none" or "Success"
    inflight_req,   \* HttpClient.inflight_req: req_num -> task (index in tasks)
    drain,          \* entries the drain loop has still to await
    tasks,          \* every task send_request spawned, in spawn order
    writer,         \* send_io_responses: "running", "done", "panicked"
    output,         \* the bytes written to the output stream (stdout)
    main,           \* lib.rs run(): "input", "http_client", "output",
                    \* "returned", "panicked"
    routed,         \* history: payloads recv_io_requests sent, in order
    handled,        \* history: payloads the driver loop took, in order
    pushed          \* history: [task, resp] pushed to resp_ch, in order

vars ==
    <<input, pos, reader, req, http_client_ch, resp_ch, driver, status, inflight_req,
      drain, tasks, writer, output, main, routed, handled, pushed>>

readerVars == <<pos, reader, req, routed>>

driverVars == <<driver, status, inflight_req, drain, handled>>

writerVars == <<writer, output>>

\* A task has ended: its future has returned, panicked or been dropped.
Ended(t) == tasks[t].pc \in {"done", "failed", "panicked", "aborted", "closed"}

TaskIds == 1..Len(tasks)

\* The process is running: run() has neither returned nor panicked (either
\* drops the runtime and with it every task).
Alive == main \notin {"returned", "panicked"}

\* Mutant of RespSendersDropped: run() keeps a Sender of resp_ch of its own.
RespSendersHeld == FALSE

\* Every Sender of resp_ch is dropped: the driver task's and each request
\* task's clone.
RespSendersDropped == driver = "stopped" /\ \A t \in TaskIds : Ended(t)

InitWith(cmds, tails) ==
    /\ \E fs \in SeqsUpTo(cmds, MaxFrames), tl \in tails :
          /\ Cardinality({i \in 1..Len(fs) : IsRequest(fs[i])}) <= MaxRequests
          /\ input = Concat([i \in 1..Len(fs) |-> InFrame(HTTP_CLIENT, Jam(fs[i]))]) \o tl
    /\ pos = 1
    /\ reader = "read"
    /\ req = <<>>
    /\ http_client_ch = <<>>
    /\ resp_ch = <<>>
    /\ driver = "running"
    /\ status = "none"
    /\ inflight_req = <<>>
    /\ drain = {}
    /\ tasks = <<>>
    /\ writer = "running"
    /\ output = <<>>
    /\ main = "input"
    /\ routed = <<>>
    /\ handled = <<>>
    /\ pushed = <<>>

Init == InitWith(Commands, Tails)

\* The input holds malformed commands of every kind and ends cleanly.
InitMalformed == InitWith(MalformedCommands, {<<>>})

\* The input ends in every way a stream of frames can end.
InitFraming == InitWith(FramingCommands, FramingTails)

(***************************************************************************)
(* recv_io_requests (lib.rs 18-46).                                        *)
(***************************************************************************)
\* One pass of the loop up to the send: the length, the tag, the payload.
ReaderRead ==
    /\ Alive
    /\ reader = "read"
    /\ LET r == ReadFrame(input, pos)
       IN  /\ reader' = CASE r.res = "break" -> "done"
                          [] r.res = "panic" -> "panicked"
                          [] OTHER -> "send"
           /\ req' = IF r.res = "send" THEN r.req ELSE <<>>
           /\ pos' = IF r.res = "send" THEN r.next ELSE pos
    /\ UNCHANGED <<input, http_client_ch, resp_ch, driverVars, tasks, writerVars, main,
                   routed, pushed>>

\* Mutant of ReaderSend: try_send, which gives up on a full channel.
ReaderTrySend ==
    /\ Alive
    /\ reader = "send"
    /\ http_client_ch' = IF Len(http_client_ch) < QUEUE_SIZE THEN Append(http_client_ch, req)
                         ELSE http_client_ch
    /\ routed' = Append(routed, req)
    /\ reader' = "read"
    /\ req' = <<>>
    /\ UNCHANGED <<input, pos, resp_ch, driver, status, inflight_req, drain, handled, tasks,
                   writer, output, main, pushed>>

\* http_client_tx.send(req).await: waits while the channel is full.
ReaderSend ==
    /\ Alive
    /\ reader = "send"
    /\ Len(http_client_ch) < QUEUE_SIZE
    /\ http_client_ch' = Append(http_client_ch, req)
    /\ routed' = Append(routed, req)
    /\ reader' = "read"
    /\ req' = <<>>
    /\ UNCHANGED <<input, pos, resp_ch, driverVars, tasks, writerVars, main, pushed>>

(***************************************************************************)
(* HttpClient (client.rs 154-302).                                         *)
(***************************************************************************)
\* Mutant of Insert: an entry that exists is kept (entry().or_insert()).
InsertIfAbsent(table, req_num, task) ==
    [n \in DOMAIN table \cup {req_num} |-> IF n \in DOMAIN table THEN table[n] ELSE task]

\* HashMap::insert: the entry for req_num is set, replacing any earlier one.
Insert(table, req_num, task) ==
    [n \in DOMAIN table \cup {req_num} |-> IF n = req_num THEN task ELSE table[n]]

\* HashMap::remove.
Remove(table, req_num) == [n \in DOMAIN table \ {req_num} |-> table[n]]

\* No response parts: the task holds none before the transport resolves and
\* after it has given them to try_into_noun.
NoParts == [status |-> 0, headers |-> <<>>]

\* tokio::spawn of the request task (177): it starts at hyper.request.
Spawn(ts, req_num) ==
    Append(ts, [req_num |-> req_num, pc |-> "transport",
                parts |-> NoParts, resp |-> Null, at |-> ""])

\* The task's future ends (returns, panics or is dropped) and its locals are
\* dropped with it.
EndTask(ts, t, how) ==
    [ts EXCEPT ![t].pc = how, ![t].parts = NoParts, ![t].resp = Null]

\* Mutant of Abort: the handle is dropped without abort(), the task runs on.
AbortForgotten(ts, t) == ts

\* JoinHandle::abort: a task that has not ended runs no further; "at" keeps
\* the await it was dropped at.  A task that has ended is left as it is.
Abort(ts, t) ==
    IF ts[t].pc \in {"done", "failed", "panicked", "aborted", "closed"} THEN ts
    ELSE [EndTask(ts, t, "aborted") EXCEPT ![t].at = ts[t].pc]

\* The branch of the loop body of run (269-288) a payload takes: "request",
\* "cancel-request", or "ignore" (an atom, a cell as tag, an unknown tag, or
\* bytes that are no noun).
Dispatch(payload) ==
    LET c == Cue(payload)
    IN  IF ~c.ok THEN "ignore"
        ELSE IF ~IsCell(c.noun) THEN "ignore"
        ELSE IF ~IsAtom(c.noun.head) THEN "ignore"
        ELSE IF c.noun.head.bytes = StrRequest THEN "request"
        ELSE IF c.noun.head.bytes = StrCancelRequest THEN "cancel-request"
        ELSE "ignore"

\* The argument of the command: the tail of the pair (into_parts, 270).
Argument(payload) == Cue(payload).noun.tail

\* req_rx.recv() yields the oldest payload.
Recv(kind) ==
    /\ Alive
    /\ driver = "running"
    /\ http_client_ch # <<>>
    /\ Dispatch(Head(http_client_ch)) = kind
    /\ http_client_ch' = Tail(http_client_ch)
    /\ handled' = Append(handled, Head(http_client_ch))

\* Mutant of SendRequest: a task the new entry replaces is aborted.
SendRequestAbortsOld ==
    /\ Recv("request")
    /\ LET r == TryFromNoun(Argument(Head(http_client_ch)))
       IN  /\ r.ok
           /\ tasks' = IF r.req_num \in DOMAIN inflight_req
                       THEN Spawn(Abort(tasks, inflight_req[r.req_num]), r.req_num)
                       ELSE Spawn(tasks, r.req_num)
           /\ inflight_req' = Insert(inflight_req, r.req_num, Len(tasks) + 1)
    /\ UNCHANGED <<input, readerVars, resp_ch, driver, status, drain, writerVars, main,
                   pushed>>

\* send_request with a request that decodes: spawn the task, record it.
SendRequest ==
    /\ Recv("request")
    /\ LET r == TryFromNoun(Argument(Head(http_client_ch)))
       IN  /\ r.ok
           /\ tasks' = Spawn(tasks, r.req_num)
           /\ inflight_req' = Insert(inflight_req, r.req_num, Len(tasks) + 1)
    /\ UNCHANGED <<input, readerVars, resp_ch, driver, status, drain, writerVars, main,
                   pushed>>

\* send_request with a request that fails decoding: warn and return (165-168).
SendRequestErr ==
    /\ Recv("request")
    /\ ~TryFromNoun(Argument(Head(http_client_ch))).ok
    /\ UNCHANGED <<input, readerVars, resp_ch, driver, status, inflight_req, drain, tasks,
                   writerVars, main, pushed>>

\* Mutant of CancelRequest: every task is aborted, not only the one recorded
\* under the req_num.
CancelRequestAbortsAll ==
    /\ Recv("cancel-request")
    /\ LET a == Argument(Head(http_client_ch))
       IN  /\ IsAtom(a)
           /\ FitsU64(a)
           /\ AsU64(a) \in DOMAIN inflight_req
           /\ inflight_req' = Remove(inflight_req, AsU64(a))
           /\ tasks' = [t \in TaskIds |-> Abort(tasks, t)[t]]
    /\ UNCHANGED <<input, readerVars, resp_ch, driver, status, drain, writerVars, main,
                   pushed>>

\* cancel_request that finds the entry: remove it and abort its task (229-231).
CancelRequest ==
    /\ Recv("cancel-request")
    /\ LET a == Argument(Head(http_client_ch))
       IN  /\ IsAtom(a)
           /\ FitsU64(a)
           /\ AsU64(a) \in DOMAIN inflight_req
           /\ inflight_req' = Remove(inflight_req, AsU64(a))
           /\ tasks' = Abort(tasks, inflight_req[AsU64(a)])
    /\ UNCHANGED <<input, readerVars, resp_ch, driver, status, drain, writerVars, main,
                   pushed>>

\* Mutant of CancelRequestMiss: the missing entry is unwrapped and the driver
\* task panics.
CancelRequestMissUnwrap ==
    /\ Recv("cancel-request")
    /\ LET a == Argument(Head(http_client_ch))
       IN  ~(IsAtom(a) /\ FitsU64(a) /\ AsU64(a) \in DOMAIN inflight_req)
    /\ driver' = "panicked"
    /\ UNCHANGED <<input, readerVars, resp_ch, status, inflight_req, drain, tasks,
                   writerVars, main, pushed>>

\* cancel_request that finds no entry, or whose argument is a cell or does
\* not fit u64: warn only (232-240).
CancelRequestMiss ==
    /\ Recv("cancel-request")
    /\ LET a == Argument(Head(http_client_ch))
       IN  ~(IsAtom(a) /\ FitsU64(a) /\ AsU64(a) \in DOMAIN inflight_req)
    /\ UNCHANGED <<input, readerVars, resp_ch, driver, status, inflight_req, drain, tasks,
                   writerVars, main, pushed>>

\* Any other payload: warn only (276-288).
Ignore ==
    /\ Recv("ignore")
    /\ UNCHANGED <<input, readerVars, resp_ch, driver, status, inflight_req, drain, tasks,
                   writerVars, main, pushed>>

\* req_rx.recv() yields None: the channel is empty and its Sender dropped
\* (recv_io_requests returned or panicked).  The drain loop starts (290).
InputClosed ==
    /\ Alive
    /\ driver = "running"
    /\ http_client_ch = <<>>
    /\ reader \in {"done", "panicked"}
    /\ driver' = "draining"
    /\ drain' = DOMAIN inflight_req
    /\ UNCHANGED <<input, readerVars, http_client_ch, resp_ch, status, inflight_req, tasks,
                   writerVars, main, handled, pushed>>

\* Mutant of DrainAwait: a JoinError (the task panicked or was aborted) is
\* propagated and ends the driver with a failure status.
DrainAwaitPropagates ==
    /\ Alive
    /\ driver = "draining"
    /\ \E n \in drain :
          /\ Ended(inflight_req[n])
          /\ drain' = drain \ {n}
          /\ IF tasks[inflight_req[n]].pc \in {"panicked", "aborted"}
             THEN driver' = "stopped" /\ status' = "Failure"
             ELSE UNCHANGED <<driver, status>>
    /\ UNCHANGED <<input, readerVars, http_client_ch, resp_ch, inflight_req,
                   tasks, writerVars, main, handled, pushed>>

\* task.await of the drain loop returns for an entry whose task has ended
\* (291-295); the map's iteration order is not fixed.
DrainAwait ==
    /\ Alive
    /\ driver = "draining"
    /\ \E n \in drain :
          /\ Ended(inflight_req[n])
          /\ drain' = drain \ {n}
    /\ UNCHANGED <<input, readerVars, http_client_ch, resp_ch, driver, status, inflight_req,
                   tasks, writerVars, main, handled, pushed>>

\* The drain loop is over: the driver task returns Status::Success (297).
DriverReturn ==
    /\ Alive
    /\ driver = "draining"
    /\ drain = {}
    /\ driver' = "stopped"
    /\ status' = "Success"
    /\ UNCHANGED <<input, readerVars, http_client_ch, resp_ch, inflight_req, drain, tasks,
                   writerVars, main, handled, pushed>>

(***************************************************************************)
(* The request task send_request spawns (client.rs 177-218).               *)
(***************************************************************************)
\* hyper.request(..).await resolves with a response (178-179).
TransportOk(t) ==
    /\ Alive
    /\ tasks[t].pc = "transport"
    /\ \E parts \in PartsSet :
          tasks' = [tasks EXCEPT ![t].pc = "body", ![t].parts = parts]
    /\ UNCHANGED <<input, readerVars, http_client_ch, resp_ch, driverVars, writerVars, main,
                   pushed>>

\* Mutant of TransportErr: the failure is reported to the host as a response
\* made of the req_num alone.
TransportErrPushes(t) ==
    /\ Alive
    /\ tasks[t].pc = "transport"
    /\ Len(resp_ch) < QUEUE_SIZE
    /\ resp_ch' = Append(resp_ch, Jam(Atom(NatBytes(tasks[t].req_num))))
    /\ pushed' = Append(pushed, [task |-> t, resp |-> Jam(Atom(NatBytes(tasks[t].req_num)))])
    /\ tasks' = EndTask(tasks, t, "failed")
    /\ UNCHANGED <<input, readerVars, http_client_ch, driverVars, writerVars, main>>

\* hyper.request(..).await resolves with an error: warn and return (180-183).
TransportErr(t) ==
    /\ Alive
    /\ tasks[t].pc = "transport"
    /\ tasks' = EndTask(tasks, t, "failed")
    /\ UNCHANGED <<input, readerVars, http_client_ch, resp_ch, driverVars, writerVars, main,
                   pushed>>

\* body::to_bytes(body).await yields the whole body; the response is turned
\* into a noun (189-212).  A panic of try_into_noun ends the task.
BodyOk(t) ==
    /\ Alive
    /\ tasks[t].pc = "body"
    /\ \E body \in BodySet :
          LET r == TryIntoNoun([req_num |-> tasks[t].req_num,
                                parts |-> tasks[t].parts, body |-> body])
          IN  tasks' = IF r.ok
                       THEN [tasks EXCEPT ![t].pc = "send", ![t].parts = NoParts,
                                          ![t].resp = r.noun]
                       ELSE EndTask(tasks, t, "panicked")
    /\ UNCHANGED <<input, readerVars, http_client_ch, resp_ch, driverVars, writerVars, main,
                   pushed>>

\* body::to_bytes(body).await fails: warn and return (191-194).
BodyErr(t) ==
    /\ Alive
    /\ tasks[t].pc = "body"
    /\ tasks' = EndTask(tasks, t, "failed")
    /\ UNCHANGED <<input, readerVars, http_client_ch, resp_ch, driverVars, writerVars, main,
                   pushed>>

\* Mutant of Send: the task removes its own entry from the in-flight table
\* once it has pushed its response.
SendRemovesEntry(t) ==
    /\ Alive
    /\ tasks[t].pc = "send"
    /\ writer # "panicked"
    /\ Len(resp_ch) < QUEUE_SIZE
    /\ resp_ch' = Append(resp_ch, Jam(tasks[t].resp))
    /\ pushed' = Append(pushed, [task |-> t, resp |-> Jam(tasks[t].resp)])
    /\ tasks' = EndTask(tasks, t, "done")
    /\ inflight_req' = Remove(inflight_req, tasks[t].req_num)
    /\ UNCHANGED <<input, readerVars, http_client_ch, driver, status, drain, handled,
                   writerVars, main>>

\* Mutant of Send: the output channel is taken to be unbounded.
SendUnbounded(t) ==
    /\ Alive
    /\ tasks[t].pc = "send"
    /\ writer # "panicked"
    /\ resp_ch' = Append(resp_ch, Jam(tasks[t].resp))
    /\ pushed' = Append(pushed, [task |-> t, resp |-> Jam(tasks[t].resp)])
    /\ tasks' = EndTask(tasks, t, "done")
    /\ UNCHANGED <<input, readerVars, http_client_ch, driverVars, writerVars, main>>

\* resp_tx.send(resp).await succeeds once the channel has room (213-217).
Send(t) ==
    /\ Alive
    /\ tasks[t].pc = "send"
    /\ writer # "panicked"
    /\ Len(resp_ch) < QUEUE_SIZE
    /\ resp_ch' = Append(resp_ch, Jam(tasks[t].resp))
    /\ pushed' = Append(pushed, [task |-> t, resp |-> Jam(tasks[t].resp)])
    /\ tasks' = EndTask(tasks, t, "done")
    /\ UNCHANGED <<input, readerVars, http_client_ch, driverVars, writerVars, main>>

\* resp_tx.send(resp).await fails, the Receiver being dropped: warn (213-214).
SendErr(t) ==
    /\ Alive
    /\ tasks[t].pc = "send"
    /\ writer = "panicked"
    /\ tasks' = EndTask(tasks, t, "closed")
    /\ UNCHANGED <<input, readerVars, http_client_ch, resp_ch, driverVars, writerVars, main,
                   pushed>>

(***************************************************************************)
(* send_io_responses (lib.rs 49-62).                                       *)
(***************************************************************************)
\* One pass of the loop: the length, the payload, flush.
WriterWrite ==
    /\ Alive
    /\ writer = "running"
    /\ resp_ch # <<>>
    /\ output' = output \o OutFrame(Head(resp_ch))
    /\ resp_ch' = Tail(resp_ch)
    /\ UNCHANGED <<input, readerVars, http_client_ch, driverVars, tasks, writer, main,
                   pushed>>

\* A write or the flush fails: todo!() panics, the Receiver is dropped with
\* what it holds.
WriterErr ==
    /\ Alive
    /\ writer = "running"
    /\ resp_ch # <<>>
    /\ writer' = "panicked"
    /\ resp_ch' = <<>>
    /\ UNCHANGED <<input, readerVars, http_client_ch, driverVars, tasks, output, main,
                   pushed>>

\* Mutant of WriterClosed: the loop ends as soon as the channel is empty
\* (try_recv in the place of recv().await).
WriterClosedEarly ==
    /\ Alive
    /\ writer = "running"
    /\ resp_ch = <<>>
    /\ writer' = "done"
    /\ UNCHANGED <<input, readerVars, http_client_ch, resp_ch, driverVars, tasks, output,
                   main, pushed>>

\* resp_rx.recv() yields None: the channel is empty and every Sender dropped.
WriterClosed ==
    /\ Alive
    /\ writer = "running"
    /\ resp_ch = <<>>
    /\ RespSendersDropped
    /\ writer' = "done"
    /\ UNCHANGED <<input, readerVars, http_client_ch, resp_ch, driverVars, tasks, output,
                   main, pushed>>

(***************************************************************************)
(* run (lib.rs 66-84): the three awaits, each unwrapped.                   *)
(***************************************************************************)
\* input_task.await.unwrap()
AwaitInput ==
    /\ main = "input"
    /\ reader \in {"done", "panicked"}
    /\ main' = IF reader = "panicked" THEN "panicked" ELSE "http_client"
    /\ UNCHANGED <<input, readerVars, http_client_ch, resp_ch, driverVars, tasks,
                   writerVars, pushed>>

\* http_client_task.await.unwrap()
AwaitHttpClient ==
    /\ main = "http_client"
    /\ driver = "stopped"
    /\ main' = "output"
    /\ UNCHANGED <<input, readerVars, http_client_ch, resp_ch, driverVars, tasks,
                   writerVars, pushed>>

\* output_task.await.unwrap()
AwaitOutput ==
    /\ main = "output"
    /\ writer \in {"done", "panicked"}
    /\ main' = IF writer = "panicked" THEN "panicked" ELSE "returned"
    /\ UNCHANGED <<input, readerVars, http_client_ch, resp_ch, driverVars, tasks,
                   writerVars, pushed>>

Next ==
    \/ ReaderRead
    \/ ReaderSend
    \/ SendRequest
    \/ SendRequestErr
    \/ CancelRequest
    \/ CancelRequestMiss
    \/ Ignore
    \/ InputClosed
    \/ DrainAwait
    \/ DriverReturn
    \/ \E t \in TaskIds : TransportOk(t)
    \/ \E t \in TaskIds : TransportErr(t)
    \/ \E t \in TaskIds : BodyOk(t)
    \/ \E t \in TaskIds : BodyErr(t)
    \/ \E t \in TaskIds : Send(t)
    \/ \E t \in TaskIds : SendErr(t)
    \/ WriterWrite
    \/ WriterErr
    \/ WriterClosed
    \/ AwaitInput
    \/ AwaitHttpClient
    \/ AwaitOutput

Spec == Init /\ [][Next]_vars

\* The driver loop can take a payload: one of SendRequest, SendRequestErr,
\* CancelRequest, CancelRequestMiss and Ignore is enabled (every payload
\* falls under exactly one of the five).
DriverCanTake == Alive /\ driver = "running" /\ http_client_ch # <<>>

\* The runtime polls every task that is ready (lib.rs 65: one scheduler
\* thread, cooperative tasks): a step of the frame reader, the driver, the
\* frame writer, run() or a request task's send that stays possible is taken.
\* For the five actions that take a payload, weak fairness is written out:
\* if one stays enabled, a payload is taken again and again.  When the
\* transport resolves and whether a write fails is not the scheduler's to
\* decide and gets no fairness.
Fairness ==
    /\ WF_vars(ReaderRead \/ ReaderSend)
    /\ <>[]DriverCanTake => []<><<handled' # handled>>_vars
    /\ WF_vars(InputClosed \/ DrainAwait \/ DriverReturn)
    /\ \A t \in 1..MaxRequests : WF_vars(t \in TaskIds /\ (Send(t) \/ SendErr(t)))
    /\ WF_vars(WriterWrite \/ WriterClosed)
    /\ WF_vars(AwaitInput \/ AwaitHttpClient \/ AwaitOutput)

FairSpec == Spec /\ Fairness

SpecMalformed == InitMalformed /\ [][Next]_vars

SpecFraming == InitFraming /\ [][Next]_vars

\* Every transport call resolves or fails and every body read ends: no
\* request task waits on the network for ever.
TransportResolves ==
    \A t \in 1..MaxRequests :
        WF_vars(t \in TaskIds /\ (TransportOk(t) \/ TransportErr(t) \/ BodyOk(t) \/ BodyErr(t)))

FairSpecFraming == SpecFraming /\ Fairness /\ TransportResolves

(***************************************************************************)
(* Definitions the properties share.                                       *)
(***************************************************************************)
\* The request number a response payload carries, as a reader of the
\* response vocabulary [req_num status headers body] finds it; -1 when the
\* payload is no such response.
RespReqNum(resp) ==
    LET c == Cue(resp)
    IN  IF c.ok /\ IsCell(c.noun) /\ IsAtom(c.noun.head) /\ FitsU64(c.noun.head)
        THEN AsU64(c.noun.head)
        ELSE -1

\* Number of responses pushed so far that carry req_num n.
PushedCount(log, n) == Cardinality({i \in 1..Len(log) : RespReqNum(log[i].resp) = n})

\* Number of request commands accepted so far with req_num n: send_request
\* spawns one task, with the decoded req_num, for each request it accepts.
AcceptedCount(ts, n) == Cardinality({t \in 1..Len(ts) : ts[t].req_num = n})

\* Task t has pushed a response.
HasPushed(log, t) == \E i \in 1..Len(log) : log[i].task = t

\* The step handles a cancel-request that finds an entry.
CancelHitStep ==
    /\ handled' # handled
    /\ Dispatch(Head(http_client_ch)) = "cancel-request"
    /\ IsAtom(Argument(Head(http_client_ch)))
    /\ FitsU64(Argument(Head(http_client_ch)))
    /\ AsU64(Argument(Head(http_client_ch))) \in DOMAIN inflight_req

(***************************************************************************)
(* C1.  Every step that pushes to the response sink pushes one response,   *)
(* which carries the req_num of a request command that was decoded         *)
(* successfully before; with it, the number of responses pushed with that  *)
(* req_num does not exceed the number of request commands accepted with    *)
(* it; and the output channel holds nothing but pushed responses.          *)
(***************************************************************************)
C1_ResponsesMatchRequests ==
    [][/\ Len(pushed') # Len(pushed) =>
             LET n == RespReqNum(pushed'[Len(pushed')].resp)
             IN  /\ pushed' = Append(pushed, pushed'[Len(pushed')])
                 /\ n >= 0
                 /\ PushedCount(pushed', n) <= AcceptedCount(tasks', n)
       /\ Len(resp_ch') > Len(resp_ch) =>
             /\ Len(pushed') = Len(pushed) + 1
             /\ resp_ch' = Append(resp_ch, pushed'[Len(pushed')].resp)]_vars

\* Two responses with the same req_num have been pushed.
C1_Witness ==
    \E i, j \in 1..Len(pushed) :
        i < j /\ RespReqNum(pushed[i].resp) = RespReqNum(pushed[j].resp)

(***************************************************************************)
(* C2, as claimed.  Once cancel-request(n) has aborted the task recorded   *)
(* under n before it pushed, no response with req_num n is pushed any      *)
(* more.                                                                   *)
(***************************************************************************)
C2_NoResponseForCancelledNumber ==
    [][\A t \in TaskIds :
          tasks[t].pc = "aborted"
              => PushedCount(pushed', tasks[t].req_num) = PushedCount(pushed, tasks[t].req_num)]_vars

(***************************************************************************)
(* C2, amended.  A cancel-request(n) that finds an entry ends the task     *)
(* recorded under n: if that task had not pushed its response it never     *)
(* pushes one, whatever await it was at; and handling the cancel-request   *)
(* puts nothing on the output channel or the output stream.                *)
(***************************************************************************)
C2_NoResponseFromCancelledTask ==
    [][/\ CancelHitStep =>
             LET t == inflight_req[AsU64(Argument(Head(http_client_ch)))]
             IN  /\ tasks'[t].pc \in {"done", "failed", "panicked", "aborted", "closed"}
                 /\ pushed' = pushed
                 /\ resp_ch' = resp_ch
                 /\ output' = output
       /\ \A t \in TaskIds :
             tasks[t].pc = "aborted"
                 => /\ tasks'[t] = tasks[t]
                    /\ ~HasPushed(pushed', t)]_vars

\* A task was aborted while it waited for room on the full output channel.
C2_Witness ==
    \E t \in TaskIds :
        /\ tasks[t].pc = "aborted"
        /\ tasks[t].at = "send"
        /\ Len(resp_ch) = QUEUE_SIZE

(***************************************************************************)
(* C3.  The driver task has returned its status only when every task       *)
(* send_request spawned has ended.                                         *)
(***************************************************************************)
C3_StoppedOnlyAfterAllTasks == status = "Success" => \A t \in TaskIds : Ended(t)

(***************************************************************************)
(* A reader of the outbound format, written from its description alone:    *)
(* u64 little-endian length, then that many payload bytes, no tag.         *)
(***************************************************************************)
RECURSIVE ReadOut(_)
\* [ok |-> TRUE, frames |-> the payloads] or [ok |-> FALSE].
ReadOut(b) ==
    IF b = <<>> THEN [ok |-> TRUE, frames |-> <<>>]
    ELSE IF Len(b) < 8 THEN [ok |-> FALSE]
    ELSE LET len == BytesNat(SubSeq(b, 1, 8))
         IN  IF Len(b) < 8 + len THEN [ok |-> FALSE]
             ELSE LET rest == ReadOut(SubSeq(b, 9 + len, Len(b)))
                  IN  IF ~rest.ok THEN [ok |-> FALSE]
                      ELSE [ok |-> TRUE,
                            frames |-> <<SubSeq(b, 9, 8 + len)>> \o rest.frames]

\* The response task t pushed stands as a frame of its own on the output
\* stream.
Written(t) ==
    \E i \in 1..Len(pushed) :
        /\ pushed[i].task = t
        /\ ReadOut(output).ok
        /\ Len(ReadOut(output).frames) >= i
        /\ ReadOut(output).frames[i] = pushed[i].resp

\* A cancel-request for req_num n has been handled.
CancelProcessed(n) ==
    \E i \in 1..Len(handled) :
        /\ Dispatch(handled[i]) = "cancel-request"
        /\ IsAtom(Argument(handled[i]))
        /\ FitsU64(Argument(handled[i]))
        /\ AsU64(Argument(handled[i])) = n

\* A cancel-request for the req_num of task t has been handled.
Cancelled(t) == t \in TaskIds /\ CancelProcessed(tasks[t].req_num)

\* Task t holds the encoded response of a request that decoded, whose
\* transport call and body read succeeded.
ReadyToSend(t) == t \in TaskIds /\ tasks[t].pc = "send"

\* Each task pushes at most one response.
AtMostOnePush == \A t \in TaskIds : Cardinality({i \in 1..Len(pushed) : pushed[i].task = t}) <= 1

(***************************************************************************)
(* C4, as claimed.  A request that decoded, whose transport call and body  *)
(* read succeeded and whose response encoded, gets exactly one response    *)
(* pushed and written as one output frame, unless a cancel-request for its *)
(* req_num is handled or the output channel closes.                        *)
(***************************************************************************)
C4_ResponseDelivered ==
    /\ \A t \in 1..MaxRequests :
          ReadyToSend(t) ~> (Written(t) \/ Cancelled(t) \/ writer = "panicked")
    /\ []AtMostOnePush

(***************************************************************************)
(* C4, amended.  The same, unless moreover the frame reader panics on a    *)
(* framing error of the input stream: run() then panics at                 *)
(* input_task.await.unwrap() and the runtime drops every task.             *)
(***************************************************************************)
C4_ResponseDeliveredUnlessFatal ==
    /\ \A t \in 1..MaxRequests :
          ReadyToSend(t)
              ~> (Written(t) \/ Cancelled(t) \/ writer = "panicked" \/ reader = "panicked")
    /\ []AtMostOnePush

\* The response of the task that pushed second has been written, no
\* cancel-request for its req_num having been handled.
C4_Witness ==
    \E t \in TaskIds :
        /\ Len(pushed) >= 2
        /\ pushed[2].task = t
        /\ Written(t)
        /\ ~Cancelled(t)

(***************************************************************************)
(* C4, as claimed, in the form a finite run refutes: the process never     *)
(* ends while a task holds an encoded response it could not deliver,       *)
(* though no cancel-request for its req_num was handled and the output     *)
(* channel is open.                                                        *)
(***************************************************************************)
C4_NoReadyResponseLost ==
    ~Alive => \A t \in TaskIds : tasks[t].pc = "send" => (Cancelled(t) \/ writer = "panicked")

(***************************************************************************)
(* C5.  Taking a malformed command (a request that fails decoding, a       *)
(* cancel-request whose argument is a pair or wider than u64, an unknown   *)
(* tag, a pair as tag, a bare atom) spawns no task, leaves the in-flight   *)
(* table, the output channel and the output stream as they are, and        *)
(* leaves the driver running.                                              *)
(***************************************************************************)
MalformedPayloads == {Jam(c) : c \in BadRequests \cup BadCancels \cup OtherCommands}

C5_MalformedCommandDropped ==
    [][(handled' # handled /\ Head(http_client_ch) \in MalformedPayloads)
          => /\ tasks' = tasks
             /\ inflight_req' = inflight_req
             /\ pushed' = pushed
             /\ resp_ch' = resp_ch
             /\ output' = output
             /\ driver' = "running"
             /\ status' = "none"]_vars

\* After a malformed command the driver took a well-formed request, whose
\* response was pushed.
C5_Witness ==
    \E i, j \in 1..Len(handled) :
        /\ i < j
        /\ handled[i] \in MalformedPayloads
        /\ handled[j] = Jam(GoodRequest(1))
        /\ pushed # <<>>

(***************************************************************************)
(* C6.  Taking cancel-request(n) while the in-flight table has no entry    *)
(* for n leaves the table and every task as they are, pushes nothing and   *)
(* leaves the driver running.                                              *)
(***************************************************************************)
CancelMissStep ==
    /\ handled' # handled
    /\ Dispatch(Head(http_client_ch)) = "cancel-request"
    /\ IsAtom(Argument(Head(http_client_ch)))
    /\ FitsU64(Argument(Head(http_client_ch)))
    /\ AsU64(Argument(Head(http_client_ch))) \notin DOMAIN inflight_req

C6_CancelUnknownIsNoOp ==
    [][CancelMissStep
          => /\ inflight_req' = inflight_req
             /\ tasks' = tasks
             /\ pushed' = pushed
             /\ resp_ch' = resp_ch
             /\ output' = output
             /\ driver' = "running"
             /\ status' = "none"]_vars

\* A second cancel-request(1) was taken after the first had removed the
\* entry of request 1.
C6_Witness ==
    /\ Len(handled) >= 3
    /\ handled[1] = Jam(GoodRequest(1))
    /\ handled[2] = Jam(CancelNoun(Atom(NatBytes(1))))
    /\ handled[3] = handled[2]
    /\ driver = "running"

(***************************************************************************)
(* C7.  The in-flight table holds under each req_num the handle of one     *)
(* task, a task spawned for that req_num; a request that reuses a req_num  *)
(* in the table puts the new task in the place of the entry, leaves the    *)
(* other entries alone and leaves the driver running.                      *)
(***************************************************************************)
TableWellFormed ==
    \A n \in DOMAIN inflight_req :
        inflight_req[n] \in TaskIds /\ tasks[inflight_req[n]].req_num = n

ReuseStep ==
    /\ handled' # handled
    /\ Dispatch(Head(http_client_ch)) = "request"
    /\ TryFromNoun(Argument(Head(http_client_ch))).ok
    /\ TryFromNoun(Argument(Head(http_client_ch))).req_num \in DOMAIN inflight_req

C7_OneTaskPerReqNum ==
    [][/\ TableWellFormed'
       /\ ReuseStep =>
             LET n == TryFromNoun(Argument(Head(http_client_ch))).req_num
             IN  /\ DOMAIN inflight_req' = DOMAIN inflight_req
                 /\ inflight_req'[n] = Len(tasks) + 1
                 /\ inflight_req'[n] # inflight_req[n]
                 /\ \A m \in DOMAIN inflight_req : m # n => inflight_req'[m] = inflight_req[m]
                 /\ driver' = "running"]_vars

\* The entry of req_num 1 was replaced while the first task for it was
\* still running.
C7_Witness ==
    /\ Len(tasks) >= 2
    /\ 1 \in DOMAIN inflight_req
    /\ inflight_req[1] = 2
    /\ tasks[1].req_num = 1
    /\ ~Ended(1)
    /\ driver = "running"

(***************************************************************************)
(* C8.  The driver task returns nothing but Status::Success, and it leaves *)
(* its command loop only when the input is closed and every routed command *)
(* has been taken, however many request tasks failed, panicked, found the  *)
(* sink closed or were aborted.                                            *)
(***************************************************************************)
C8_DriverAlwaysSucceeds ==
    /\ driver \in {"running", "draining", "stopped"}
    /\ status \in {"none", "Success"}
    /\ driver = "stopped" <=> status = "Success"
    /\ driver # "running"
          => reader \in {"done", "panicked"} /\ http_client_ch = <<>> /\ handled = routed

\* The driver returned Success after one task had failed and another had
\* panicked.
C8_Witness ==
    /\ status = "Success"
    /\ \E t, u \in TaskIds : tasks[t].pc = "failed" /\ tasks[u].pc \in {"panicked", "aborted"}

(***************************************************************************)
(* A reader of the inbound format, written from its description alone:     *)
(* u64 little-endian length, one tag byte, length - 1 payload bytes.  The  *)
(* payloads of the complete frames of b, all of which carry tag 0.         *)
(***************************************************************************)
RECURSIVE InPayloads(_)
InPayloads(b) ==
    IF Len(b) < 9 THEN <<>>
    ELSE LET len == BytesNat(SubSeq(b, 1, 8))
         IN  IF len = 0 \/ Len(b) < 8 + len \/ b[9] # 0 THEN <<>>
             ELSE <<SubSeq(b, 10, 8 + len)>> \o InPayloads(SubSeq(b, 9 + len, Len(b)))

C10_FramesRoundTrip ==
    LET out == ReadOut(output)
    IN  /\ out.ok
        /\ Len(out.frames) <= Len(pushed)
        /\ \A i \in 1..Len(out.frames) : out.frames[i] = pushed[i].resp
        /\ writer # "panicked"
              => out.frames \o resp_ch = [i \in 1..Len(pushed) |-> pushed[i].resp]

\* Two frames have been written.
C10_Witness == ReadOut(output).ok /\ Len(ReadOut(output).frames) >= 2

(***************************************************************************)
(* The frame reader stands at a clean end of the input: at the end of the  *)
(* stream with no byte of a next length prefix, or at a length of 0.       *)
(***************************************************************************)
AtCleanEnd ==
    \/ pos = Len(input) + 1
    \/ /\ pos + 7 <= Len(input)
       /\ \A i \in pos..(pos + 7) : input[i] = 0

(***************************************************************************)
(* C11.  The frame reader terminates normally only at a clean end of the   *)
(* input; at a framing error (the stream ends inside the length prefix,    *)
(* before the tag byte or inside the payload, or the tag is not 0) it      *)
(* terminates with a panic, and what it has routed are the payloads of the *)
(* complete frames before the offending one.                               *)
(***************************************************************************)
C11_FramingErrorIsFatal ==
    /\ reader = "done" => AtCleanEnd
    /\ reader = "panicked" => ~AtCleanEnd /\ routed = InPayloads(input)

(***************************************************************************)
(* C12.  A read at a clean end of the input (no byte of a next length      *)
(* prefix, or a length of 0) ends the frame reader normally; when it has   *)
(* ended normally the payloads routed are those of the complete frames     *)
(* before that point, and nothing is read or routed afterwards.            *)
(***************************************************************************)
C12_CleanEndTerminatesNormally ==
    [][/\ (reader = "read" /\ AtCleanEnd /\ reader' # "read")
             => reader' = "done" /\ pos' = pos /\ routed' = routed
       /\ reader' = "done" => routed' = InPayloads(input') /\ req' = <<>>
       /\ reader = "done"
             => reader' = "done" /\ pos' = pos /\ routed' = routed
                   /\ Len(http_client_ch') <= Len(http_client_ch)]_vars

\* The reader ended normally at a length of 0 that a frame follows, having
\* routed the frames before it.
C12_Witness ==
    /\ reader = "done"
    /\ pos + 7 < Len(input)
    /\ Len(routed) >= 2
    /\ driver = "stopped"

(***************************************************************************)
(* C13.  A read at a complete frame of length L >= 1 with tag 0 takes as   *)
(* payload exactly the L - 1 bytes after the tag byte and moves to the     *)
(* first byte after them; the payload is then appended to the HTTP         *)
(* driver's channel as it is.                                              *)
(***************************************************************************)
C13_PayloadIsLengthMinusOne ==
    [][/\ (reader = "read" /\ reader' = "send")
             => LET L == BytesNat(SubSeq(input, pos, pos + 7))
                IN  /\ L >= 1
                    /\ input[pos + 8] = HTTP_CLIENT
                    /\ req' = [i \in 1..(L - 1) |-> input[pos + 8 + i]]
                    /\ pos' = pos + 8 + L
                    /\ http_client_ch' = http_client_ch
       /\ (reader = "read" /\ reader' # "read" /\ pos + 8 <= Len(input)
              /\ BytesNat(SubSeq(input, pos, pos + 7)) >= 1
              /\ pos + 7 + BytesNat(SubSeq(input, pos, pos + 7)) <= Len(input)
              /\ input[pos + 8] = HTTP_CLIENT)
             => reader' = "send"
       /\ (reader = "send" /\ reader' = "read")
             => http_client_ch' = Append(http_client_ch, req) /\ pos' = pos]_vars

\* A frame of length 1 was delivered as an empty payload after two other
\* frames, and the reader went on to the clean end behind it.
C13_Witness ==
    /\ Len(routed) >= 3
    /\ routed[Len(routed)] = <<>>
    /\ routed[1] # <<>>
    /\ reader = "done"
    /\ pos = Len(input) + 1

Reverse(seq) == [i \in 1..Len(seq) |-> seq[Len(seq) + 1 - i]]

RECURSIVE NounList(_)
\* The right-nested list of the nouns of seq, ended by the atom 0.
NounList(seq) == IF seq = <<>> THEN Atom(<<>>) ELSE Cell(Head(seq), NounList(Tail(seq)))

\* The (name, value) pairs of a header map as the loops of try_into_noun
\* meet them: names in storage order, the values of a name in their order.
RECURSIVE PairsInOrder(_)
PairsInOrder(headers) ==
    IF headers = <<>> THEN <<>>
    ELSE [i \in 1..Len(Head(headers).vals) |->
              Cell(Atom(Head(headers).name), Atom(Head(headers).vals[i]))]
         \o PairsInOrder(Tail(headers))

(***************************************************************************)
(* C15.  The header list of an encoded response holds one (name, value)    *)
(* pair per header value and is the reverse of the pairs in iteration      *)
(* order (names in storage order, the values of a name in their order),    *)
(* ended by the atom 0.                                                    *)
(***************************************************************************)
C15_HeaderListReversed ==
    [][\A t \in TaskIds :
          (tasks[t].pc = "body" /\ tasks'[t].pc = "send")
             => /\ IsCell(tasks'[t].resp)
                /\ IsCell(tasks'[t].resp.tail)
                /\ IsCell(tasks'[t].resp.tail.tail)
                /\ tasks'[t].resp.tail.tail.head
                      = NounList(Reverse(PairsInOrder(tasks[t].parts.headers)))]_vars

\* A response was encoded whose header map repeats a name: the pair of the
\* second value stands before the pair of the first.
C15_Witness ==
    \E t \in TaskIds :
        /\ tasks[t].pc = "send"
        /\ tasks[t].resp.tail.tail.head
              = NounList(<< Cell(Atom(<<120>>), Atom(<<72>>)),
                            Cell(Atom(<<118>>), Atom(<<65>>)),
                            Cell(Atom(<<118>>), Atom(<<79>>)) >>)

(***************************************************************************)
(* C16.  A step changes the in-flight table only if it is the driver loop  *)
(* taking a request that decodes (the table gets the new task under its    *)
(* req_num) or a cancel-request that finds an entry (the entry goes); the  *)
(* other entries stay.  No step of a request task changes the table.       *)
(***************************************************************************)
C16_TableChangedOnlyByDriver ==
    [][/\ inflight_req' # inflight_req =>
             /\ http_client_ch # <<>>
             /\ handled' = Append(handled, Head(http_client_ch))
             /\ \/ /\ Dispatch(Head(http_client_ch)) = "request"
                   /\ TryFromNoun(Argument(Head(http_client_ch))).ok
                   /\ LET n == TryFromNoun(Argument(Head(http_client_ch))).req_num
                      IN  /\ DOMAIN inflight_req' = DOMAIN inflight_req \cup {n}
                          /\ inflight_req'[n] = Len(tasks) + 1
                          /\ \A m \in DOMAIN inflight_req :
                                m # n => inflight_req'[m] = inflight_req[m]
                \/ /\ CancelHitStep
                   /\ LET n == AsU64(Argument(Head(http_client_ch)))
                      IN  /\ DOMAIN inflight_req' = DOMAIN inflight_req \ {n}
                          /\ \A m \in DOMAIN inflight_req' : inflight_req'[m] = inflight_req[m]
       /\ (\E t \in TaskIds : tasks'[t].pc # tasks[t].pc /\ tasks'[t].pc # "aborted")
             => inflight_req' = inflight_req]_vars

\* A task has pushed its response and ended; its entry is still in the
\* table while the driver runs.
C16_Witness ==
    \E n \in DOMAIN inflight_req :
        /\ tasks[inflight_req[n]].pc = "done"
        /\ HasPushed(pushed, inflight_req[n])
        /\ driver = "running"

(***************************************************************************)
(* C17.  A step in which a task's transport call or body read fails ends   *)
(* that task and changes nothing else: nothing is pushed or written, the   *)
(* table and every other task stay as they are, the driver goes on; and a  *)
(* task that has failed never pushes.                                      *)
(***************************************************************************)
C17_FailureIsContained ==
    [][\A t \in TaskIds :
          /\ (tasks[t].pc \in {"transport", "body"} /\ tasks'[t].pc = "failed")
                => /\ pushed' = pushed
                   /\ resp_ch' = resp_ch
                   /\ output' = output
                   /\ inflight_req' = inflight_req
                   /\ driver' = driver
                   /\ Len(tasks') = Len(tasks)
                   /\ \A u \in TaskIds : u # t => tasks'[u] = tasks[u]
          /\ tasks[t].pc = "failed"
                => tasks'[t] = tasks[t] /\ ~HasPushed(pushed', t)]_vars

\* The first task failed, the second pushed its response afterwards and the
\* driver ended with Success.
C17_Witness ==
    /\ Len(tasks) >= 2
    /\ tasks[1].pc = "failed"
    /\ HasPushed(pushed, 2)
    /\ ~HasPushed(pushed, 1)
    /\ status = "Success"

(***************************************************************************)
(* C18.  The frame writer has ended normally only when the output channel  *)
(* is empty, the driver task has returned and every request task has       *)
(* ended; then, and when run() has returned, every response pushed to the  *)
(* output channel has been written to the output stream, in order.         *)
(***************************************************************************)
C18_WriterEndsAfterAllSenders ==
    /\ writer = "done"
          => /\ resp_ch = <<>>
             /\ driver = "stopped"
             /\ \A t \in TaskIds : Ended(t)
             /\ ReadOut(output).ok
             /\ ReadOut(output).frames = [i \in 1..Len(pushed) |-> pushed[i].resp]
    /\ main = "returned" => writer = "done" /\ reader = "done" /\ status = "Success"

\* run() has returned after two responses were pushed.
C18_Witness == main = "returned" /\ Len(pushed) >= 2

(***************************************************************************)
(* C20.  A request that reuses a req_num in the table puts the new task in *)
(* the entry and leaves the earlier task as it is, running if it was       *)
(* running.  A cancel-request that finds an entry for a req_num removes it *)
(* and ends the task it names, which is the task spawned last for that     *)
(* req_num; every other task is left as it is.                             *)
(***************************************************************************)
C20_ReuseOrphansCancelHitsNewest ==
    [][/\ ReuseStep =>
             LET n == TryFromNoun(Argument(Head(http_client_ch))).req_num
             IN  /\ inflight_req'[n] = Len(tasks) + 1
                 /\ Len(tasks') = Len(tasks) + 1
                 /\ tasks'[Len(tasks) + 1].req_num = n
                 /\ \A u \in TaskIds : tasks'[u] = tasks[u]
       /\ CancelHitStep =>
             LET n == AsU64(Argument(Head(http_client_ch)))
                 t == inflight_req[n]
             IN  /\ n \notin DOMAIN inflight_req'
                 /\ \A u \in TaskIds : tasks[u].req_num = n => u <= t
                 /\ tasks'[t].pc \in {"done", "failed", "panicked", "aborted", "closed"}
                 /\ ~Ended(t) => tasks'[t].pc = "aborted"
                 /\ \A u \in TaskIds : u # t => tasks'[u] = tasks[u]]_vars

\* Two tasks were spawned for req_num 1; a cancel-request aborted the second
\* and the first, left out of the table, pushed its response afterwards.
C20_Witness ==
    /\ Len(tasks) >= 2
    /\ tasks[1].req_num = 1
    /\ tasks[2].req_num = 1
    /\ tasks[2].pc = "aborted"
    /\ 1 \notin DOMAIN inflight_req
    /\ HasPushed(pushed, 1)
    /\ Len(handled) >= 3
    /\ pushed[Len(pushed)].task = 1

(***************************************************************************)
(* The input stream ends gracefully: behind its complete frames there is   *)
(* nothing, or a length of 0.                                              *)
(***************************************************************************)
RECURSIVE EndOfFrames(_, _)
EndOfFrames(b, p) ==
    IF p + 8 > Len(b) THEN p
    ELSE LET len == BytesNat(SubSeq(b, p, p + 7))
         IN  IF len = 0 \/ p + 7 + len > Len(b) \/ b[p + 8] # 0 THEN p
             ELSE EndOfFrames(b, p + 8 + len)

GracefulInput ==
    LET e == EndOfFrames(input, 1)
    IN  \/ e = Len(input) + 1
        \/ e + 7 <= Len(input) /\ \A i \in e..(e + 7) : input[i] = 0

(***************************************************************************)
(* C19.  If the input stream ends gracefully, every transport call         *)
(* resolves or fails and no write to the output stream fails, then the     *)
(* frame reader, the driver and the frame writer all end and run()         *)
(* returns; the driver leaves its command loop only after the frame reader *)
(* has ended, and the frame writer ends only after the driver has stopped. *)
(***************************************************************************)
C19_GracefulTermination ==
    /\ GracefulInput
          => <>(\/ writer = "panicked"
                \/ /\ reader = "done"
                   /\ driver = "stopped"
                   /\ writer = "done"
                   /\ main = "returned")
    /\ [](driver # "running" => reader \in {"done", "panicked"})
    /\ [](writer = "done" => driver = "stopped")

\* Everything has ended after a length of 0 closed an input of MaxFrames
\* frames, two responses having gone through the output channel.
C19_Witness ==
    /\ GracefulInput
    /\ pos + 7 <= Len(input)
    /\ main = "returned"
    /\ Len(handled) >= 3
    /\ Len(pushed) >= 2

====
